---- MODULE Spec2Model ----
(***************************************************************************)
(* Nature_Poster_Photos.py: Pexels_Photo_Processing.process_photos (the    *)
(* per-photo gate chain, the Facebook post and the database log) and main  *)
(* (the page loop that drives it), as a state machine.  One run of main is *)
(* one process; runs follow each other on the same sqlite database.        *)
(***************************************************************************)
EXTENDS Integers, Sequences, FiniteSets, TLC

\* ------------------------------------------------------------------ bounds
\* photos one page may hold (Pexels is asked for 15; 6 is the least that lets
\* the failsafe test at the sixth photo of a page fire)
MaxPageLen == 6
\* the ghost count of failed posts of one run saturates here
MaxFailed == 6
\* the ghost count of times one photo id was posted to FB saturates here
MaxPosted == 2
\* photos of one page when the pages hold photos of every kind
MaxShortPage == 2

\* -------------------------------------------------------- program constants
\* line 52: if attempted_posts >= 5
FailsafeCeiling == 5
\* line 64: if photo_file_size >= 4000
SizeCeiling == 4000
\* get_file_size reports kilobytes: bytes per reported unit
BytesPerUnit == 1000

\* ------------------------------------------------------------- text values
\* a text is a sequence of one-character strings
nude == <<"n", "u", "d", "e">>
blue_lake == <<"b", "l", "u", "e", " ", "l", "a", "k", "e">>
sunset_nude == <<"s", "u", "n", "-", "n", "u", "d", "e">>
sunset_tab_nude == <<"s", "u", "n", "\t", "n", "u", "d", "e">>

\* the Bad_Words column of the Bad_Words table
Bad_Words == <<nude>>

\* ------------------------------------------------------------ input domains
PhotoIds == {1, 12}
Extensions == {"jpeg", "gif"}
ByteSizes == {500000, 3999999, 4000000}
Descriptions == {blue_lake, sunset_nude, sunset_tab_nude}
Hashes == {"h1", "h2"}
ImageTexts == {<<>>, nude}

\* a photo entry of a Pexels page; bytes is the size of photo.large.
\* A plain photo is postable as far as its own fields go
PlainPhotos ==
    [id : PhotoIds, extension : {"jpeg"}, bytes : {500000},
     description : {blue_lake}, large2x : [phash : Hashes, text : {<<>>}]]

\* the photos the pages are made of: the plain ones, and each of them with one
\* field changed
Photos ==
    PlainPhotos
    \cup {[p EXCEPT !.extension = e] : p \in PlainPhotos, e \in Extensions}
    \cup {[p EXCEPT !.bytes = b] : p \in PlainPhotos, b \in ByteSizes}
    \cup {[p EXCEPT !.description = d] : p \in PlainPhotos, d \in Descriptions}
    \cup {[p EXCEPT !.large2x.text = t] : p \in PlainPhotos, t \in ImageTexts}

NoPhoto ==
    [id |-> 0, extension |-> "", bytes |-> 0, description |-> <<>>,
     large2x |-> [phash |-> "", text |-> <<>>]]

\* the text FB answers a photo post with: with a post id, or an error body
RespPosted == <<"id", "77", "post_id", "123">>
RespError == <<"error", "OAuthException">>
Responses == {RespPosted, RespError}

\* the call at which a collaborator raises, when the iteration gets there
Faults ==
    {"none", "get_file_size", "write_image", "hash_image", "ocr_text",
     "post_photo_to_fb", "edit_caption", "log_to_DB"}

\* ------------------------------------------------------------ pure helpers
Range(s) == {s[i] : i \in 1..Len(s)}

Min(a, b) == IF a < b THEN a ELSE b

DigitChar == <<"0", "1", "2", "3", "4", "5", "6", "7", "8", "9">>

\* str(n) of a non-negative int
RECURSIVE Str(_)
Str(n) ==
    IF n < 10 THEN <<DigitChar[n + 1]>>
    ELSE Str(n \div 10) \o <<DigitChar[(n % 10) + 1]>>

\* s.replace(old, new) for one-character old and new
Replace(s, old, new) == [i \in 1..Len(s) |-> IF s[i] = old THEN new ELSE s[i]]

\* s.split(sep) for a one-character sep: every sep cuts, empty pieces are kept
RECURSIVE SplitFrom(_, _, _, _)
SplitFrom(s, sep, i, cur) ==
    IF i > Len(s) THEN <<cur>>
    ELSE IF s[i] = sep THEN <<cur>> \o SplitFrom(s, sep, i + 1, <<>>)
    ELSE SplitFrom(s, sep, i + 1, Append(cur, s[i]))

Split(s, sep) == SplitFrom(s, sep, 1, <<>>)

\* s.split(): cut on runs of whitespace, no empty pieces
RECURSIVE WordsFrom(_, _, _)
WordsFrom(s, i, cur) ==
    IF i > Len(s) THEN (IF cur = <<>> THEN <<>> ELSE <<cur>>)
    ELSE IF s[i] \in {" ", "\t", "\n"}
         THEN (IF cur = <<>> THEN <<>> ELSE <<cur>>) \o WordsFrom(s, i + 1, <<>>)
         ELSE WordsFrom(s, i + 1, Append(cur, s[i]))

Words(s) == WordsFrom(s, 1, <<>>)

\* ------------------------------------------------------------ collaborators
\* Image_Processing.get_file_size(photo.large): the size in kilobytes
get_file_size(bytes) == bytes \div BytesPerUnit

\* Text_Processing.acceptable_extension_for_photo_posting
AllowedExtensions == {"jpeg", "png"}

acceptable_extension_for_photo_posting(extension) == extension \in AllowedExtensions

\* Database.retrieve_values_from_table_column on Nature_Bot_Logged_FB_Posts
retrieve_values_from_table_column(table, column) ==
    [i \in 1..Len(table) |-> table[i][column]]

\* Image_Processing.hash_image and ocr_text read the file write_image wrote
hash_image(file) == file.phash

ocr_text(file) == file.text

\* Text_Processing.there_are_badwords: a recognized word is on the deny list
there_are_badwords(image_text, bad_words_list) ==
    \E w \in Range(Words(image_text)) : w \in Range(bad_words_list)

\* Text_Processing.get_post_id_from_json: the value of the post_id field
NoPostId == "None"

get_post_id_from_json(request) ==
    IF \E i \in 1..(Len(request) - 1) : request[i] = "post_id"
    THEN request[(CHOOSE i \in 1..(Len(request) - 1) : request[i] = "post_id") + 1]
    ELSE NoPostId

\* Database.log_to_DB: one row appended to the table
log_to_DB(table, data) == Append(table, data)

\* -------------------------------------------------- the gates, lines 43-91
\* lines 43-44
photo_description_of(p) == Replace(p.description, "-", " ")

photo_description_word_check_of(p) == Split(photo_description_of(p), " ")

\* the failsafe one refused post late
FailsafeGate_above(attempted) == attempted > FailsafeCeiling

\* line 52
FailsafeGate(attempted) == attempted >= FailsafeCeiling

\* the format gate left out
UnacceptableExtension_never(extension) == FALSE

\* line 56
UnacceptableExtension(extension) == ~acceptable_extension_for_photo_posting(extension)

\* the prior-post gate left out
AlreadyLoggedId_never(p, table) == FALSE

\* line 60
AlreadyLoggedId(p, table) ==
    Str(p.id) \in Range(retrieve_values_from_table_column(table, "ID"))

\* the size taken for bytes where it is kilobytes
TooLarge_bytes(photo_file_size) == photo_file_size * BytesPerUnit >= SizeCeiling

\* the size gate left out
TooLarge_never(photo_file_size) == FALSE

\* line 64
TooLarge(photo_file_size) == photo_file_size >= SizeCeiling

\* the description gate left out
DescriptionHasBadWord_never(word_check, bad_words_list) == FALSE

\* line 67
DescriptionHasBadWord(word_check, bad_words_list) ==
    \E w \in Range(bad_words_list) : w \in Range(word_check)

\* the duplicate-picture gate left out
AlreadyLoggedHash_never(hash_str, table) == FALSE

\* line 77
AlreadyLoggedHash(hash_str, table) ==
    hash_str \in Range(retrieve_values_from_table_column(table, "Image_Hash"))

\* every answer of FB taken for a confirmation
successful_post_always(fb_post_id, post_to_fb_request) == TRUE

\* line 87: fb_post_id in post_to_fb_request
successful_post(fb_post_id, post_to_fb_request) ==
    fb_post_id \in Range(post_to_fb_request)

\* lines 103-107: the columns of the row that the duplicate gates read back
data_to_log(p, hash_str) == [ID |-> Str(p.id), Image_Hash |-> hash_str]

NoData == [ID |-> <<>>, Image_Hash |-> ""]

\* the row logged before FB's answer is looked at
OnFailedPost_logs(attempted, table) ==
    [attempted |-> attempted + 1, table |-> log_to_DB(table, NoData)]

\* the refused post not counted
OnFailedPost_uncounted(attempted, table) == [attempted |-> attempted, table |-> table]

\* lines 89-91: a post FB did not confirm
OnFailedPost(attempted, table) == [attempted |-> attempted + 1, table |-> table]

\* the row logged twice
OnLoggedPost_twice(table, data) ==
    [table |-> log_to_DB(log_to_DB(table, data), data), open |-> FALSE]

\* the connection left open
OnLoggedPost_open(table, data) == [table |-> log_to_DB(table, data), open |-> TRUE]

\* lines 109-112: log the row, close the connection, return the row
OnLoggedPost(table, data) == [table |-> log_to_DB(table, data), open |-> FALSE]

\* ------------------------------------ one pass of the for loop, lines 41-112
\* what one pass leaves behind: how it ended (kind), at which gate, the
\* collaborator calls it made in order, and the values it leaves in the
\* counter, the table and the connection; posted is the id of the photo FB
\* confirmed in this pass (0: none), data the row it returns
Pass(kind, gate, calls, attempted, table, open, posted, data) ==
    [kind |-> kind, gate |-> gate, calls |-> calls, attempted |-> attempted,
     table |-> table, open |-> open, posted |-> posted, data |-> data]

\* lines 84-112, once every gate has let the photo through
PostAndLog(p, hash_str, resp, fault, attempted, table, calls) ==
    LET c1 == Append(calls, "post_photo_to_fb")
        c2 == Append(c1, "edit_caption")
        c3 == Append(c2, "log_to_DB")
        c4 == Append(c3, "close")
        fb_post_id == get_post_id_from_json(resp)
        failed == OnFailedPost(attempted, table)
        data == data_to_log(p, hash_str)
        logged == OnLoggedPost(table, data)
    IN  IF fault = "post_photo_to_fb"
        THEN Pass("raise", "fault", c1, attempted, table, TRUE, 0, NoData)
        ELSE IF ~successful_post(fb_post_id, resp)
        THEN Pass("continue", "post_failed", c1, failed.attempted, failed.table,
                  TRUE, 0, NoData)
        ELSE IF fault = "edit_caption"
        THEN Pass("raise", "fault", c2, attempted, table, TRUE, p.id, NoData)
        ELSE IF fault = "log_to_DB"
        THEN Pass("raise", "fault", c3, attempted, table, TRUE, p.id, NoData)
        ELSE Pass("return_data", "posted", c4, attempted, logged.table,
                  logged.open, p.id, data)

\* lines 70-82: download, hash and OCR gates
FetchAndCheck(p, resp, fault, attempted, table, bad_words_list, calls) ==
    LET c1 == Append(calls, "write_image")
        c2 == Append(c1, "hash_image")
        c3 == Append(c2, "read_Image_Hash")
        c4 == Append(c3, "ocr_text")
        image_jpg == p.large2x
        hash_str == hash_image(image_jpg)
    IN  IF fault = "write_image"
        THEN Pass("raise", "fault", c1, attempted, table, TRUE, 0, NoData)
        ELSE IF fault = "hash_image"
        THEN Pass("raise", "fault", c2, attempted, table, TRUE, 0, NoData)
        ELSE IF AlreadyLoggedHash(hash_str, table)
        THEN Pass("continue", "hash", c3, attempted, table, TRUE, 0, NoData)
        ELSE IF fault = "ocr_text"
        THEN Pass("raise", "fault", c4, attempted, table, TRUE, 0, NoData)
        ELSE IF there_are_badwords(ocr_text(image_jpg), bad_words_list)
        THEN Pass("continue", "image_text", c4, attempted, table, TRUE, 0, NoData)
        ELSE PostAndLog(p, hash_str, resp, fault, attempted, table, c4)

\* lines 41-112 for one photo
LoopBody(p, resp, fault, attempted, table, open) ==
    LET c1 == <<"get_file_size">>
        c2 == Append(c1, "read_Bad_Words")
        c3 == Append(c2, "read_ID")
        photo_file_size == get_file_size(p.bytes)
        bad_words_list == Bad_Words
    IN  IF fault = "get_file_size"
        THEN Pass("raise", "fault", c1, attempted, table, open, 0, NoData)
        ELSE IF ~open
        THEN Pass("raise", "closed", c2, attempted, table, open, 0, NoData)
        ELSE IF FailsafeGate(attempted)
        THEN Pass("return_true", "failsafe", c2, attempted, table, open, 0, NoData)
        ELSE IF UnacceptableExtension(p.extension)
        THEN Pass("continue", "format", c2, attempted, table, open, 0, NoData)
        ELSE IF AlreadyLoggedId(p, table)
        THEN Pass("continue", "prior", c3, attempted, table, open, 0, NoData)
        ELSE IF TooLarge(photo_file_size)
        THEN Pass("continue", "size", c3, attempted, table, open, 0, NoData)
        ELSE IF DescriptionHasBadWord(photo_description_word_check_of(p), bad_words_list)
        THEN Pass("continue", "description", c3, attempted, table, open, 0, NoData)
        ELSE FetchAndCheck(p, resp, fault, attempted, table, bad_words_list, c3)

\* -------------------------------------------------------------------- state
VARIABLES
    store,            \* rows of Nature_Bot_Logged_FB_Posts in Nature_Bot_Data.db
    db_open,          \* database_instance.connect is open
    pc,               \* "idle": no process; "loop": line 135; "for": line 41; "ret": line 137
    main_attempted,   \* main's attempted_posts, line 132
    attempted_posts,  \* process_photos' parameter attempted_posts
    idx,              \* photos of the page the for loop has gone through
    photo,            \* the photo of the last pass
    done,             \* the global done: what process_photos returned
    last,             \* ghost: gate, calls and FB's answer of the last pass
    posted_count,     \* ghost: times FB confirmed a post of each photo id
    failed_in_run,    \* ghost: posts FB did not confirm since the run began
    logs_in_run,      \* ghost: rows logged since the run began
    store_at_call,    \* ghost: store when process_photos was entered
    page_tried,       \* ghost: a photo of this page got as far as the post
    recall            \* ghost: this call follows a returned row in the same process

vars ==
    <<store, db_open, pc, main_attempted, attempted_posts, idx, photo, done, last,
      posted_count, failed_in_run, logs_in_run, store_at_call, page_tried, recall>>

\* no answer of FB: the pass did not post, or the post raised
NoResponse == <<>>

NoLast == [gate |-> "", calls |-> <<>>, resp |-> NoResponse]

\* the values of done: False (line 133), True (line 53), None (the loop ran
\* out), the logged row (line 112)
DoneFalse == [kind |-> "False", data |-> NoData]

DoneTrue == [kind |-> "True", data |-> NoData]

DoneNone == [kind |-> "None", data |-> NoData]

DoneData(data) == [kind |-> "data", data |-> data]

\* a driver that stops on True alone and takes a returned row for "not done"
Truthy_true_only(d) == d.kind = "True"

\* Python truth of a value of done: a non-empty tuple and True are true
Truthy(d) == d.kind \in {"True", "data"}

Init ==
    /\ store = <<>>
    /\ db_open = FALSE
    /\ pc = "idle"
    /\ main_attempted = 0
    /\ attempted_posts = 0
    /\ idx = 0
    /\ photo = NoPhoto
    /\ done = DoneFalse
    /\ last = NoLast
    /\ posted_count = [i \in PhotoIds |-> 0]
    /\ failed_in_run = 0
    /\ logs_in_run = 0
    /\ store_at_call = <<>>
    /\ page_tried = FALSE
    /\ recall = FALSE

\* the process is gone: its locals, its globals and its connection with it
ProcessEnds ==
    /\ pc' = "idle"
    /\ db_open' = FALSE
    /\ main_attempted' = 0
    /\ attempted_posts' = 0
    /\ idx' = 0
    /\ done' = DoneFalse
    /\ failed_in_run' = 0
    /\ logs_in_run' = 0
    /\ store_at_call' = <<>>
    /\ page_tried' = FALSE

\* main, lines 123-133: a new process opens the database and asks for page 1
StartRun ==
    /\ pc = "idle"
    /\ pc' = "loop"
    /\ db_open' = TRUE
    /\ main_attempted' = 0
    /\ done' = DoneFalse
    /\ last' = NoLast
    /\ photo' = NoPhoto
    /\ recall' = FALSE
    /\ UNCHANGED <<store, attempted_posts, idx, posted_count, failed_in_run,
                   logs_in_run, store_at_call, page_tried>>

\* process_photos is entered with counter n, lines 27-41
Enter(n, again) ==
    /\ pc' = "for"
    /\ attempted_posts' = n
    /\ idx' = 0
    /\ photo' = NoPhoto
    /\ last' = NoLast
    /\ page_tried' = FALSE
    /\ store_at_call' = store
    /\ recall' = again

\* main, line 135: the call of process_photos on the current page
CallProcessPhotos ==
    /\ pc = "loop"
    /\ Enter(main_attempted, FALSE)
    /\ UNCHANGED <<store, db_open, main_attempted, done, posted_count,
                   failed_in_run, logs_in_run>>

\* one pass of the for loop over the next photo of the page
Iterate(p, resp, fault) ==
    /\ pc = "for"
    /\ \E r \in {LoopBody(p, resp, fault, attempted_posts, store, db_open)} :
           /\ last' = [gate |-> r.gate, calls |-> r.calls,
                        resp |-> IF r.gate \in {"post_failed", "posted"} \/ r.posted # 0
                                 THEN resp ELSE NoResponse]
           /\ photo' = p
           /\ store' = r.table
           /\ posted_count' =
                IF r.posted = 0 THEN posted_count
                ELSE [posted_count EXCEPT
                        ![r.posted] = Min(posted_count[r.posted] + 1, MaxPosted)]
           /\ IF r.kind = "raise"
              THEN ProcessEnds /\ recall' = recall
              ELSE /\ idx' = idx + 1
                   /\ attempted_posts' = r.attempted
                   /\ db_open' = r.open
                   /\ pc' = IF r.kind = "continue" THEN "for" ELSE "ret"
                   /\ done' = CASE r.kind = "return_true" -> DoneTrue
                                [] r.kind = "return_data" -> DoneData(r.data)
                                [] OTHER -> done
                   /\ failed_in_run' =
                        IF r.gate = "post_failed" THEN Min(failed_in_run + 1, MaxFailed)
                        ELSE failed_in_run
                   /\ logs_in_run' = logs_in_run + Len(r.table) - Len(store)
                   /\ page_tried' = (page_tried \/ r.gate \in {"post_failed", "posted"})
                   /\ UNCHANGED <<main_attempted, store_at_call, recall>>

\* the for loop runs out of photos: process_photos returns None
EndOfPage ==
    /\ pc = "for"
    /\ pc' = "ret"
    /\ done' = DoneNone
    /\ photo' = NoPhoto
    /\ last' = NoLast
    /\ UNCHANGED <<store, db_open, main_attempted, attempted_posts, idx,
                   posted_count, failed_in_run, logs_in_run, store_at_call,
                   page_tried, recall>>

\* main, lines 137-138: not done, so the next page is asked for
NextPage ==
    /\ pc = "ret"
    /\ ~Truthy(done)
    /\ pc' = "loop"
    /\ UNCHANGED <<store, db_open, main_attempted, attempted_posts, idx, photo, done,
                   last, posted_count, failed_in_run, logs_in_run, store_at_call,
                   page_tried, recall>>

\* main, line 134: done is true, the loop and the process end
Exit ==
    /\ pc = "ret"
    /\ Truthy(done)
    /\ ProcessEnds
    /\ last' = NoLast
    /\ photo' = NoPhoto
    /\ recall' = FALSE
    /\ UNCHANGED <<store, posted_count>>

\* a caller that holds the Database instance calls process_photos once more
\* after it returned a row
CallAgain ==
    /\ pc = "ret"
    /\ done.kind = "data"
    /\ ~recall
    /\ Enter(0, TRUE)
    /\ UNCHANGED <<store, db_open, main_attempted, done, posted_count,
                   failed_in_run, logs_in_run>>

\* the calls a pass over p makes when no collaborator raises
CallsMade(p, resp) ==
    Range(LoopBody(p, resp, "none", attempted_posts, store, db_open).calls)

\* FB answers only a pass that posts
ResponsesFor(p) ==
    IF "post_photo_to_fb" \in CallsMade(p, RespError) THEN Responses ELSE {RespError}

\* a collaborator raises only in a call the pass makes
FaultsFor(p, resp) == {"none"} \cup (CallsMade(p, resp) \cap Faults)

\* runs over short pages of photos of every kind, with collaborators that may raise
Next ==
    \/ StartRun
    \/ CallProcessPhotos
    \/ /\ idx < MaxShortPage
       /\ \E p \in Photos : \E resp \in ResponsesFor(p) : \E fault \in FaultsFor(p, resp) :
            Iterate(p, resp, fault)
    \/ EndOfPage
    \/ NextPage
    \/ Exit
    \/ CallAgain

Spec == Init /\ [][Next]_vars

\* runs over long pages, with collaborators that do not raise
PageNext ==
    \/ StartRun
    \/ CallProcessPhotos
    \/ /\ idx < MaxPageLen
       /\ \E p \in Photos : \E resp \in ResponsesFor(p) : Iterate(p, resp, "none")
    \/ EndOfPage
    \/ NextPage
    \/ Exit

\* main is one sequential process: it takes its next step whenever it has
\* one, and a page is a finite list, so the for loop comes to its end unless
\* process_photos returns first
PageSpec ==
    /\ Init
    /\ [][PageNext]_vars
    /\ WF_vars(StartRun)
    /\ WF_vars(CallProcessPhotos)
    /\ WF_vars(EndOfPage)
    /\ WF_vars(NextPage)
    /\ WF_vars(Exit)

\* ------------------------------------------------------------------- claims
\* what the claims speak of, said without the gates of the code
LoggedIds(table) == {table[i].ID : i \in 1..Len(table)}

LoggedHashes(table) == {table[i].Image_Hash : i \in 1..Len(table)}

HasPostId(resp) == \E i \in 1..Len(resp) : resp[i] = "post_id"

\* a pass over a photo has been made and its traces are in photo and last
PassMade == photo # NoPhoto /\ last.gate # ""

\* the description has a deny-listed token once hyphens are spaces and the
\* text is cut on whitespace
DescriptionDenied(p) ==
    \E w \in Range(Words(Replace(p.description, "-", " "))) : w \in Range(Bad_Words)

TextDenied(p) == \E w \in Range(Words(p.large2x.text)) : w \in Range(Bad_Words)

\* C1: over any sequence of runs on one store, runs ended by a raising
\* collaborator included, FB confirms a post of no photo id more than once.
C1_NoIdPostedTwice == \A i \in PhotoIds : posted_count[i] <= 1

\* C2: no two rows of the store carry the same photo id.
C2_UniqueIds ==
    \A i, j \in 1..Len(store) : i # j => store[i].ID # store[j].ID

\* C2 witness: two rows are logged and a photo with a logged id was turned
\* away at the prior-post gate.
C2_Witness == Len(store) = 2 /\ PassMade /\ last.gate = "prior"

\* C3: no two rows of the store carry the same picture hash, also when photos
\* of different ids hash alike.
C3_UniqueHashes ==
    \A i, j \in 1..Len(store) : i # j => store[i].Image_Hash # store[j].Image_Hash

\* C3 witness: a photo whose id is not logged but whose hash is was turned
\* away at the hash gate.
C3_Witness ==
    /\ PassMade
    /\ last.gate = "hash"
    /\ Str(photo.id) \notin LoggedIds(store)
    /\ photo.large2x.phash \in LoggedHashes(store)

\* C4: called with counter 0 on a page of exactly five photos that all get as
\* far as the post and are all refused by FB, process_photos returns True (the
\* failsafe) and logs no row.
C4_FiveRefusalsFailsafe ==
    (pc = "ret" /\ ~recall /\ main_attempted = 0 /\ idx = 5 /\ attempted_posts = 5)
        => (done = DoneTrue /\ store = store_at_call)

\* C5: the counter is shared by the pages of a run: inside process_photos it
\* is the number of refused posts of the run so far, and no run makes more
\* than five refused posts.
C5_SharedCounter ==
    /\ pc = "for" => attempted_posts = failed_in_run
    /\ failed_in_run <= FailsafeCeiling

\* FB has confirmed a post
Confirmed == last.gate = "posted"

\* a page was gone through of which no photo got as far as the post
BarrenPage == pc = "ret" /\ done = DoneNone /\ ~page_tried

\* C6: if FB never confirms a post and every page gone through held a photo
\* that got as far as the post, a run ends with the failsafe: process_photos
\* returns True, unless FB does confirm a post or a page holds no such photo.
C6_RefusedRunReachesFailsafe == <>(done = DoneTrue \/ Confirmed \/ BarrenPage)

\* C7: when process_photos returns a row, that is the one row logged in the
\* whole run, it is the last row of the store, and it is the row of the photo
\* whose post FB confirmed.
C7_OneRowPerPostedRun ==
    (pc = "ret" /\ done.kind = "data")
        => /\ logs_in_run = 1
           /\ Len(store) = Len(store_at_call) + 1
           /\ store[Len(store)] = done.data
           /\ last.gate = "posted" /\ HasPostId(last.resp)
           /\ done.data.ID = Str(photo.id)
           /\ posted_count[photo.id] >= 1

\* C7 witness: a row is returned on a later page of a run whose earlier page
\* had a refused post.
C7_Witness ==
    pc = "ret" /\ done.kind = "data" /\ failed_in_run > attempted_posts

\* C8: when process_photos returns True (failsafe) or None (page gone
\* through), the store is as it was when the call began.
C8_NoRowUnlessPosted ==
    (pc = "ret" /\ done.kind \in {"True", "None"}) => store = store_at_call

\* C8 witness: the failsafe return, on a store that holds a row.
C8_Witness == pc = "ret" /\ done = DoneTrue /\ Len(store) >= 1

\* a pass of a call that follows a returned row in the same process, over a
\* photo with the id or the hash of a logged row
RecallPassOverLogged ==
    /\ recall
    /\ PassMade
    /\ \/ Str(photo.id) \in LoggedIds(store)
       \/ photo.large2x.phash \in LoggedHashes(store)

PostablePass ==
    /\ PassMade
    /\ ~recall
    /\ pc # "idle"
    /\ idx = 1
    /\ photo.extension \in AllowedExtensions
    /\ Str(photo.id) \notin LoggedIds(store_at_call)
    /\ photo.bytes < 4000000
    /\ ~DescriptionDenied(photo)
    /\ ~TextDenied(photo)
    /\ photo.large2x.phash \notin LoggedHashes(store_at_call)

\* C10: a page of one photo with an allowed extension, an id and a hash not
\* logged, fewer than 4,000,000 bytes and no deny-listed word in its
\* description or picture is posted to FB, and when FB's answer holds a post
\* id process_photos returns the row with that photo's id and hash.
C10_HappyPath ==
    PostablePass
        => /\ last.gate \in {"posted", "post_failed"}
           /\ HasPostId(last.resp)
                => /\ pc = "ret"
                   /\ done = DoneData([ID |-> Str(photo.id),
                                       Image_Hash |-> photo.large2x.phash])
                   /\ store = Append(store_at_call, done.data)

\* C10 witness: the 500000-byte photo of a one-photo page was posted.
C10_Witness ==
    /\ PostablePass
    /\ photo.bytes = 500000
    /\ HasPostId(last.resp)
    /\ pc = "ret"
    /\ done.kind = "data"

\* the store as it was before the last pass: a pass that raised ended the
\* process and left the store as it found it
StoreBefore == IF pc = "idle" THEN store ELSE store_at_call

\* the calls of the last pass
CallsOfPass == Range(last.calls)

\* the download and what follows it: ImageAnalysis on the picture, and FB
FetchCalls == {"write_image", "hash_image", "ocr_text"}

PublishCalls == {"post_photo_to_fb", "edit_caption"}

\* a pass was made over a photo whose extension is not allowed
BadExtensionPass == PassMade /\ photo.extension \notin AllowedExtensions

\* C11 as stated: for a photo with a disallowed extension process_photos
\* calls neither FB nor ImageAnalysis, the size request included (passes in
\* which a collaborator raised aside).
C11_NoCallForBadExtension ==
    (BadExtensionPass /\ last.gate # "fault")
        => CallsOfPass \cap (PublishCalls \cup FetchCalls \cup {"get_file_size"}) = {}

\* C11 amended: for a photo with a disallowed extension process_photos asks
\* for the size (line 45, before the format gate) and makes no other
\* ImageAnalysis call and no FB call; the format gate turns the photo away
\* after the size request and the deny-list read alone.
C11_OnlySizeForBadExtension ==
    BadExtensionPass
        => /\ CallsOfPass \cap (PublishCalls \cup FetchCalls) = {}
           /\ "get_file_size" \in CallsOfPass
           /\ last.gate \in {"format", "failsafe", "closed", "fault"}
           /\ last.gate = "format"
                => /\ last.calls = <<"get_file_size", "read_Bad_Words">>
                   /\ pc = "for"
                   /\ store = store_at_call

\* C11 witness: a gif was turned away at the format gate.
C11_Witness == BadExtensionPass /\ last.gate = "format" /\ photo.extension = "gif"

\* a pass was made over a photo whose id was logged or whose size is at
\* least 4,000,000 bytes
MetadataRejectPass ==
    /\ PassMade
    /\ \/ Str(photo.id) \in LoggedIds(StoreBefore)
       \/ photo.bytes >= 4000000

\* C12: a photo whose id is logged or whose size is at least 4,000,000 bytes
\* is never downloaded, hashed, read for text or posted, and no row is logged.
C12_NoFetchForLoggedOrLarge ==
    MetadataRejectPass
        => /\ CallsOfPass \cap (PublishCalls \cup FetchCalls) = {}
           /\ last.gate \in {"format", "prior", "size", "failsafe", "closed", "fault"}
           /\ store = StoreBefore

\* C12 witness: the photo of exactly 4,000,000 bytes was turned away at the
\* size gate.
C12_Witness == MetadataRejectPass /\ photo.bytes = 4000000 /\ last.gate = "size"

\* the description has a deny-listed token once hyphens are spaces and the
\* text is cut at every space, and at spaces only
DescriptionDeniedAtSpaces(p) ==
    \E w \in Range(Split(Replace(p.description, "-", " "), " ")) : w \in Range(Bad_Words)

\* C13 as stated: a photo whose description, hyphens made spaces and cut on
\* whitespace, holds a deny-listed token is never downloaded or posted (passes
\* in which a collaborator raised aside).
C13_DeniedDescriptionNeverFetched ==
    (PassMade /\ DescriptionDenied(photo) /\ last.gate # "fault")
        => CallsOfPass \cap (PublishCalls \cup FetchCalls) = {}

\* what line 44 does give: a photo whose description, hyphens made spaces and
\* cut at the space character only, holds a deny-listed token is never
\* downloaded or posted; a tab or a newline does not part two tokens.
C13_DeniedAtSpacesNeverFetched ==
    (PassMade /\ DescriptionDeniedAtSpaces(photo))
        => /\ CallsOfPass \cap (PublishCalls \cup FetchCalls) = {}
           /\ last.gate \in {"format", "prior", "size", "description", "failsafe",
                             "closed", "fault"}
           /\ store = StoreBefore

\* "sun-nude" was turned away at the description gate
DeniedAtHyphenRejected ==
    PassMade /\ photo.description = sunset_nude /\ last.gate = "description"

\* process_photos has returned to main and main takes its next step
DriverStep == pc = "ret" /\ pc' # "ret"

\* C14: main asks for the next page exactly when process_photos returned None
\* (the page ran out without a post), and when it returned True (failsafe) or
\* a row (posted) the process ends without another page being asked for.
C14_NextPageIffExhausted ==
    [][/\ DriverStep => /\ (done = DoneNone) <=> (pc' = "loop")
                        /\ (done = DoneTrue \/ done.kind = "data") <=> (pc' = "idle")
                        /\ store' = store
       /\ (pc' = "loop" /\ pc # "loop") => (pc = "idle" \/ (pc = "ret" /\ done = DoneNone))
      ]_vars

\* C14 witness: a page of three photos, none of them posted or tried, has run
\* out and main has asked for the next page.
C14_Witness ==
    /\ pc = "loop"
    /\ done = DoneNone
    /\ idx = 3
    /\ ~page_tried
    /\ attempted_posts = 0

\* the calls of a pass up to and including the post, in the order of lines
\* 45-85
CallsUpToPost ==
    <<"get_file_size", "read_Bad_Words", "read_ID", "write_image", "hash_image",
      "read_Image_Hash", "ocr_text", "post_photo_to_fb">>

PostAttempted == PassMade /\ "post_photo_to_fb" \in CallsOfPass

\* C15: FB is asked to post a photo only after the photo went through every
\* gate of the same call of process_photos: its extension is allowed, its id
\* and the hash of its download are not in the store the call read, its size
\* is under the ceiling, and neither its description (cut as line 44 cuts it)
\* nor the text read off the picture holds a deny-listed token; the post is
\* the last of the calls that lead to it.
C15_PostOnlyAfterEveryGate ==
    PostAttempted
        => /\ photo.extension \in AllowedExtensions
           /\ Str(photo.id) \notin LoggedIds(StoreBefore)
           /\ photo.bytes < 4000000
           /\ ~DescriptionDeniedAtSpaces(photo)
           /\ photo.large2x.phash \notin LoggedHashes(StoreBefore)
           /\ ~TextDenied(photo)
           /\ Len(last.calls) >= Len(CallsUpToPost)
           /\ SubSeq(last.calls, 1, Len(CallsUpToPost)) = CallsUpToPost

\* C15 witness: a photo went through the six gates and FB was asked to post
\* it, while a row of an earlier post was in the store.
C15_Witness == PostAttempted /\ pc # "idle" /\ Len(StoreBefore) >= 1

\* the reads of the store a pass can make
StoreReads == {"read_Bad_Words", "read_ID", "read_Image_Hash"}

FailsafePass == PassMade /\ last.gate = "failsafe"

\* C16 as stated: the pass that ends with the failsafe does no work for its
\* photo: it reads nothing from the store and calls neither ImageAnalysis nor
\* FB.
C16_FailsafeBeforeAnyWork ==
    FailsafePass
        => CallsOfPass \cap (StoreReads \cup {"get_file_size"} \cup FetchCalls
                              \cup PublishCalls) = {}

\* C16 amended: once the counter is 5 or more when a photo is taken up, the
\* pass over it asks for the size of the photo and reads the deny list (lines
\* 45-46) and then returns True at line 53: the ID and Image_Hash columns are
\* not read, nothing is downloaded, hashed, read off the picture or posted,
\* and the store and the counter stay as they were.
C16_FailsafeAfterSizeAndDenyList ==
    [][(pc = "for" /\ attempted_posts >= FailsafeCeiling /\ idx' = idx + 1)
          => /\ last'.gate = "failsafe"
             /\ last'.calls = <<"get_file_size", "read_Bad_Words">>
             /\ pc' = "ret"
             /\ done' = DoneTrue
             /\ store' = store
             /\ attempted_posts' = attempted_posts
      ]_vars

\* C16 witness: the fifth refused post of a page was followed by a sixth
\* photo, and the pass over it returned True.
C16_Witness ==
    /\ FailsafePass
    /\ pc = "ret"
    /\ done = DoneTrue
    /\ attempted_posts = FailsafeCeiling
    /\ idx = FailsafeCeiling + 1

\* the step is a pass of the loop in which FB was asked to post the photo
PostStep == pc = "for" /\ idx' = idx + 1 /\ "post_photo_to_fb" \in Range(last'.calls)

\* C17: in every pass that asks FB to post, if the answer holds no post id
\* the counter grows by exactly one, the caption is not edited, nothing is
\* written to the store and the loop goes on; if it holds one, the calls end
\* with the post, the caption edit, one log_to_DB and the close, in that order,
\* the store is longer by exactly the row of that photo, and the counter is
\* as it was.
C17_PostOutcome ==
    [][PostStep
          => IF HasPostId(last'.resp)
             THEN /\ last'.gate = "posted"
                  /\ last'.calls = CallsUpToPost \o <<"edit_caption", "log_to_DB", "close">>
                  /\ Len(store') = Len(store) + 1
                  /\ SubSeq(store', 1, Len(store)) = store
                  /\ store'[Len(store')].ID = Str(photo'.id)
                  /\ attempted_posts' = attempted_posts
             ELSE /\ last'.gate = "post_failed"
                  /\ last'.calls = CallsUpToPost
                  /\ store' = store
                  /\ attempted_posts' = attempted_posts + 1
                  /\ pc' = "for"
      ]_vars

\* C17 witness: in one call FB refused a post, which was counted, and then
\* confirmed the post of a later photo, which was logged once.
C17_Witness ==
    /\ PassMade
    /\ last.gate = "posted"
    /\ HasPostId(last.resp)
    /\ attempted_posts >= 1
    /\ Len(store) = Len(store_at_call) + 1

\* the step is one pass of the for loop: the next photo of the page is taken up
IterateStep == pc = "for" /\ idx' = idx + 1

\* the gates at which a pass ends with continue
RejectGates ==
    {"format", "prior", "size", "description", "hash", "image_text", "post_failed"}

\* p goes through the six gates of a call that reads table
PassesEveryGate(p, table) ==
    /\ p.extension \in AllowedExtensions
    /\ Str(p.id) \notin LoggedIds(table)
    /\ p.bytes < 4000000
    /\ ~DescriptionDeniedAtSpaces(p)
    /\ p.large2x.phash \notin LoggedHashes(table)
    /\ ~TextDenied(p)

\* C18: the photos of a page are taken up one after the other and a rejected
\* photo only moves the loop on to the next one; a photo that goes through
\* every gate while the counter is under 5 is never passed over: FB is asked
\* to post it, and it is the posted one exactly when FB confirms; the posted
\* photo went through every gate, its row is what the call returns, and with
\* it the loop and the run are over, so that no later photo is taken up and a
\* run has at most one confirmed post.
C18_FirstPostableIsPosted ==
    [][/\ (pc = "for" /\ last' # last /\ pc' # "ret") => IterateStep
       /\ (IterateStep /\ last'.gate \in RejectGates)
             => /\ pc' = "for"
                /\ done' = done
                /\ store' = store
                /\ posted_count' = posted_count
       /\ (IterateStep /\ attempted_posts < FailsafeCeiling
             /\ PassesEveryGate(photo', store))
             => /\ last'.gate \in {"posted", "post_failed"}
                /\ (last'.gate = "posted") <=> HasPostId(last'.resp)
       /\ (IterateStep /\ last'.gate = "posted")
             => /\ PassesEveryGate(photo', store)
                /\ attempted_posts < FailsafeCeiling
                /\ pc' = "ret"
                /\ done' = DoneData(data_to_log(photo', photo'.large2x.phash))
                /\ posted_count'[photo'.id] = posted_count[photo'.id] + 1
                /\ logs_in_run = 0
                /\ logs_in_run' = 1
       /\ posted_count' # posted_count => (IterateStep /\ last'.gate = "posted")
       /\ (pc = "ret" /\ done.kind = "data") => pc' = "idle"
      ]_vars

\* C18 witness: of a page, the first photo was rejected at a gate, the second
\* was refused by FB and the third was posted, and the call returned its row.
C18_Witness ==
    /\ pc = "ret"
    /\ done.kind = "data"
    /\ last.gate = "posted"
    /\ idx = 3
    /\ attempted_posts = 1
    /\ done.data.ID = Str(photo.id)
====
